---- MODULE Spec2Model ----
(***************************************************************************)
(* The spreadsheet-backed record store of src/src/services/googleSheets.ts *)
(* (class GoogleSheetsService): appointments and patients kept as rows of  *)
(* two spreadsheet tabs, read by a full-range fetch and written by append, *)
(* range overwrite and range clear requests.                               *)
(*                                                                         *)
(* A tab is a sequence of rows, a row a sequence of cells (strings); row n *)
(* of the spreadsheet is element n of the sequence.  The remote side is    *)
(* the values API the requests address (GET values, PUT values, POST       *)
(* :append, POST :clear): it keeps rows where they are, a cleared row      *)
(* stays as an empty row, an append adds a row after the last one.         *)
(*                                                                         *)
(* Around the store: the connection test and the save handler of the       *)
(* settings screen (GoogleSheetsSettings.tsx), the provider that installs  *)
(* a service and tests its connection (GoogleSheetsProvider), and a second *)
(* session whose update is run in its two steps.  Spec runs one session's  *)
(* store operations; SettingsSpec, OpsSpec, RaceSpec and ProviderSpec run  *)
(* the others.                                                             *)
(***************************************************************************)
EXTENDS Integers, Sequences, FiniteSets, TLC

(***************************************************************************)
(* Bounds of the model.                                                    *)
(***************************************************************************)
MaxClock == 2

\* the number of operations run when every operation of the service is tried
MaxOps == 1

(***************************************************************************)
(* JavaScript values.  A missing property or an index past the end of an   *)
(* array reads as undefined; JSON.stringify turns undefined inside an      *)
(* array into null.                                                        *)
(***************************************************************************)
UNDEF == "<undefined>"
NULL == "<null>"

\* v || d
OrElse(v, d) == IF v \in {"", UNDEF, NULL} THEN d ELSE v

\* e.f
Get(e, f) == IF f \in DOMAIN e THEN e[f] ELSE UNDEF

\* { ...a, ...b }
Spread(a, b) == [f \in (DOMAIN a) \cup (DOMAIN b) |-> IF f \in DOMAIN b THEN b[f] ELSE a[f]]

\* row[k], k counted from 0
Cell(row, k) == IF k + 1 <= Len(row) THEN row[k + 1] ELSE UNDEF

\* list[i], i counted from 0: an index outside the array reads undefined,
\* and spreading undefined adds no property
At(list, i) == IF i >= 0 /\ i < Len(list) THEN list[i + 1] ELSE [f \in {} |-> UNDEF]

\* JSON.stringify({values: [row]}) followed by JSON.parse
JsonRow(row) == [i \in DOMAIN row |-> IF row[i] = UNDEF THEN NULL ELSE row[i]]

\* new Date().toISOString() at clock value n
Iso(n) == "2025-01-01T00:00:0" \o ToString(n) \o ".000Z"

Kinds == {"apt", "pat"}
Owners == {"A", "B"}

(***************************************************************************)
(* The two schemas.                                                        *)
(***************************************************************************)
AptHeaders ==
  << "ID", "Patient Name", "Patient Phone", "Patient Email",
     "Appointment Date", "Appointment Time", "Service Type",
     "Status", "Notes", "WhatsApp Message ID", "SMS Message ID",
     "Created At", "Updated At", "User ID" >>

PatHeaders ==
  << "ID", "Name", "Phone", "Email", "Date of Birth",
     "Address", "Emergency Contact", "Medical Notes",
     "Created At", "Updated At", "User ID" >>

Headers(kind) == IF kind = "apt" THEN AptHeaders ELSE PatHeaders

AptFields ==
  << "id", "patientName", "patientPhone", "patientEmail", "appointmentDate",
     "appointmentTime", "serviceType", "status", "notes", "whatsappMessageId",
     "smsMessageId", "createdAt", "updatedAt", "userId" >>

PatFields ==
  << "id", "name", "phone", "email", "dateOfBirth", "address",
     "emergencyContact", "medicalNotes", "createdAt", "updatedAt", "userId" >>

Fields(kind) == IF kind = "apt" THEN AptFields ELSE PatFields

\* the index (from 0) of the owner column: row[13], row[10]
AptUserCol == 13
PatUserCol == 10
UserCol(kind) == IF kind = "apt" THEN AptUserCol ELSE PatUserCol

(***************************************************************************)
(* Positional mapping of a fetched row to an entity (the object literal    *)
(* pushed by the scan loop).                                               *)
(***************************************************************************)
\* ParseAppointment without the default of the status, `row[7] || ''`
ParseAppointmentNoDefault(row) ==
  [ id                |-> OrElse(Cell(row, 0), ""),
    patientName       |-> OrElse(Cell(row, 1), ""),
    patientPhone      |-> OrElse(Cell(row, 2), ""),
    patientEmail      |-> OrElse(Cell(row, 3), ""),
    appointmentDate   |-> OrElse(Cell(row, 4), ""),
    appointmentTime   |-> OrElse(Cell(row, 5), ""),
    serviceType       |-> OrElse(Cell(row, 6), ""),
    status            |-> OrElse(Cell(row, 7), ""),
    notes             |-> OrElse(Cell(row, 8), ""),
    whatsappMessageId |-> OrElse(Cell(row, 9), ""),
    smsMessageId      |-> OrElse(Cell(row, 10), ""),
    createdAt         |-> OrElse(Cell(row, 11), ""),
    updatedAt         |-> OrElse(Cell(row, 12), ""),
    userId            |-> OrElse(Cell(row, 13), "") ]

ParseAppointment(row) ==
  [ id                |-> OrElse(Cell(row, 0), ""),
    patientName       |-> OrElse(Cell(row, 1), ""),
    patientPhone      |-> OrElse(Cell(row, 2), ""),
    patientEmail      |-> OrElse(Cell(row, 3), ""),
    appointmentDate   |-> OrElse(Cell(row, 4), ""),
    appointmentTime   |-> OrElse(Cell(row, 5), ""),
    serviceType       |-> OrElse(Cell(row, 6), ""),
    status            |-> OrElse(Cell(row, 7), "pending"),
    notes             |-> OrElse(Cell(row, 8), ""),
    whatsappMessageId |-> OrElse(Cell(row, 9), ""),
    smsMessageId      |-> OrElse(Cell(row, 10), ""),
    createdAt         |-> OrElse(Cell(row, 11), ""),
    updatedAt         |-> OrElse(Cell(row, 12), ""),
    userId            |-> OrElse(Cell(row, 13), "") ]

ParsePatient(row) ==
  [ id               |-> OrElse(Cell(row, 0), ""),
    name             |-> OrElse(Cell(row, 1), ""),
    phone            |-> OrElse(Cell(row, 2), ""),
    email            |-> OrElse(Cell(row, 3), ""),
    dateOfBirth      |-> OrElse(Cell(row, 4), ""),
    address          |-> OrElse(Cell(row, 5), ""),
    emergencyContact |-> OrElse(Cell(row, 6), ""),
    medicalNotes     |-> OrElse(Cell(row, 7), ""),
    createdAt        |-> OrElse(Cell(row, 8), ""),
    updatedAt        |-> OrElse(Cell(row, 9), ""),
    userId           |-> OrElse(Cell(row, 10), "") ]

ParseRow(kind, row) == IF kind = "apt" THEN ParseAppointment(row) ELSE ParsePatient(row)

(***************************************************************************)
(* Serialisation of an entity to the row array create and update send.     *)
(***************************************************************************)
AppointmentRow(e) ==
  << Get(e, "id"),
     Get(e, "patientName"),
     Get(e, "patientPhone"),
     OrElse(Get(e, "patientEmail"), ""),
     Get(e, "appointmentDate"),
     Get(e, "appointmentTime"),
     Get(e, "serviceType"),
     Get(e, "status"),
     OrElse(Get(e, "notes"), ""),
     OrElse(Get(e, "whatsappMessageId"), ""),
     OrElse(Get(e, "smsMessageId"), ""),
     Get(e, "createdAt"),
     Get(e, "updatedAt"),
     Get(e, "userId") >>

\* PatientRow with the dateOfBirth and address columns exchanged
PatientRowSwapped(e) ==
  << Get(e, "id"),
     Get(e, "name"),
     Get(e, "phone"),
     OrElse(Get(e, "email"), ""),
     OrElse(Get(e, "address"), ""),
     OrElse(Get(e, "dateOfBirth"), ""),
     OrElse(Get(e, "emergencyContact"), ""),
     OrElse(Get(e, "medicalNotes"), ""),
     Get(e, "createdAt"),
     Get(e, "updatedAt"),
     Get(e, "userId") >>

PatientRow(e) ==
  << Get(e, "id"),
     Get(e, "name"),
     Get(e, "phone"),
     OrElse(Get(e, "email"), ""),
     OrElse(Get(e, "dateOfBirth"), ""),
     OrElse(Get(e, "address"), ""),
     OrElse(Get(e, "emergencyContact"), ""),
     OrElse(Get(e, "medicalNotes"), ""),
     Get(e, "createdAt"),
     Get(e, "updatedAt"),
     Get(e, "userId") >>

EntityRow(kind, e) == IF kind = "apt" THEN AppointmentRow(e) ELSE PatientRow(e)

(***************************************************************************)
(* Texts.  A message is a sequence of pieces read one after the other;     *)
(* every decimal digit is a piece of its own, so that a search for a       *)
(* number inside a message is a search for consecutive pieces.             *)
(***************************************************************************)
NoText == <<>>

\* `${n}` of a natural number
RECURSIVE Digits(_)
Digits(n) == IF n < 10 THEN <<ToString(n)>> ELSE Digits(n \div 10) \o <<ToString(n % 10)>>

\* text.includes(needle)
Includes(text, needle) ==
  \E i \in 0..(Len(text) - Len(needle)) : SubSeq(text, i + 1, i + Len(needle)) = needle

\* o.f is there and is not the empty string
HasText(o, f) == f \in DOMAIN o /\ o[f] # NoText

\* JSON.stringify of an array of { reason } objects
RECURSIVE JsonItems(_, _)
JsonItems(details, i) ==
  IF i > Len(details) THEN NoText
  ELSE (IF i > 1 THEN <<",">> ELSE NoText)
         \o <<"{\"reason\":\"">> \o details[i] \o <<"\"}">> \o JsonItems(details, i + 1)

JsonDetails(details) == <<"[">> \o JsonItems(details, 1) \o <<"]">>

(***************************************************************************)
(* Requests and the remote side.  A request names the tab, the row range   *)
(* of its endpoint and the rows of its body; an oracle says how the fetch  *)
(* facade answers it: the promise rejects, or a response with a status.    *)
(***************************************************************************)
Oracles ==
  { [rejected |-> FALSE, status |-> 200],
    [rejected |-> FALSE, status |-> 500],
    [rejected |-> TRUE, status |-> 0] }

OkOracle == [rejected |-> FALSE, status |-> 200]

\* GET /values/<tab>!A1:N1
HeaderGetRequest(kind) ==
  [method |-> "GET", kind |-> kind, range |-> "row", row |-> 1, values |-> <<>>]

\* PUT /values/<tab>!A1:N1 {values: [headers]}
HeaderPutRequest(kind) ==
  [method |-> "PUT", kind |-> kind, range |-> "row", row |-> 1,
   values |-> JsonRow(Headers(kind))]

\* GET /values/<tab>
ListRequest(kind) ==
  [method |-> "GET", kind |-> kind, range |-> "all", row |-> 0, values |-> <<>>]

\* AppendRequest sent as an overwrite of the first data row
AppendRequestAsPut(kind, row) ==
  [method |-> "PUT", kind |-> kind, range |-> "row", row |-> 2,
   values |-> JsonRow(row)]

\* POST /values/<tab>:append {values: [row], valueInputOption: 'RAW'}
AppendRequest(kind, row) ==
  [method |-> "POST", kind |-> kind, range |-> "append", row |-> 0,
   values |-> JsonRow(row)]

\* PUT /values/<tab>!A<n>:N<n> {values: [row]}
RowPutRequest(kind, rowNumber, row) ==
  [method |-> "PUT", kind |-> kind, range |-> "row", row |-> rowNumber,
   values |-> JsonRow(row)]

\* POST /values/<tab>!A<n>:N<n>:clear
RowClearRequest(kind, rowNumber) ==
  [method |-> "POST", kind |-> kind, range |-> "clear", row |-> rowNumber,
   values |-> <<>>]

\* GET / (the spreadsheet's metadata)
ProbeRequest ==
  [method |-> "GET", kind |-> "meta", range |-> "meta", row |-> 0, values |-> <<>>]

\* The tab with row n replaced; rows between the old end and n are blank.
SetRow(t, n, row) ==
  [i \in 1..(IF n > Len(t) THEN n ELSE Len(t)) |->
     IF i = n THEN row ELSE IF i <= Len(t) THEN t[i] ELSE <<>>]

\* The cells a written row leaves: a null cell of the body is skipped, so
\* the cell keeps what it held (nothing, in a new row).
WrittenRow(old, values) ==
  [i \in DOMAIN values |->
     IF values[i] = NULL THEN OrElse(Cell(old, i - 1), "") ELSE values[i]]

\* What the values API does with a request that it accepts: the tab
\* afterwards and the response body.
Backend(s, req) ==
  LET t == s[req.kind]
      n == req.row
      old == IF n >= 1 /\ n <= Len(t) THEN t[n] ELSE <<>>
  IN  CASE req.range = "meta" ->
             [sheet |-> s, body |-> [spreadsheetId |-> "sheet-1", properties |-> "Clinic"]]
        [] req.method = "GET" /\ req.range = "all" ->
             [sheet |-> s,
              body |-> IF Len(t) = 0 THEN [range |-> req.kind]
                       ELSE [range |-> req.kind, values |-> t]]
        [] req.method = "GET" /\ req.range = "row" ->
             [sheet |-> s,
              body |-> IF old = <<>> THEN [range |-> req.kind]
                       ELSE [range |-> req.kind, values |-> <<old>>]]
        [] req.method = "PUT" ->
             [sheet |-> [s EXCEPT ![req.kind] = SetRow(t, n, WrittenRow(old, req.values))],
              body |-> [range |-> req.kind]]
        [] req.method = "POST" /\ req.range = "append" ->
             [sheet |-> [s EXCEPT ![req.kind] = Append(t, WrittenRow(<<>>, req.values))],
              body |-> [range |-> req.kind]]
        [] OTHER ->
             [sheet |-> IF n >= 1 /\ n <= Len(t)
                        THEN [s EXCEPT ![req.kind] = SetRow(t, n, <<>>)]
                        ELSE s,
              body |-> [range |-> req.kind]]

\* the trace of a request: its endpoint and how it was answered
Logged(req, o) ==
  [method |-> req.method, kind |-> req.kind, range |-> req.range, row |-> req.row,
   rejected |-> o.rejected, status |-> o.status]

\* `Google Sheets API error: ${status}`, then ` - ${body.error.message}`
\* and ` (${JSON.stringify(body.error.details)})` when the body has them
ErrorMessage(o) ==
  <<"Google Sheets API error: ">> \o Digits(o.status)
    \o (IF HasText(o, "message") THEN <<" - ">> \o o.message ELSE NoText)
    \o (IF "details" \in DOMAIN o THEN <<" (">> \o JsonDetails(o.details) \o <<")">>
        ELSE NoText)

\* what the fetch throws when it rejects: an Error with its message, or a
\* value that is no Error
IsError(o) == IF "isError" \in DOMAIN o THEN o.isError ELSE TRUE
RejectionMessage(o) == IF IsError(o) THEN <<"Failed to fetch">> ELSE NoText

\* makeRequest that sends a request that failed once more
makeRequestRetrying(s, req, o) ==
  IF o.rejected
  THEN [threw |-> TRUE, err |-> RejectionMessage(o), isError |-> IsError(o),
        body |-> [range |-> req.kind], sheet |-> s,
        log |-> <<Logged(req, o), Logged(req, o)>>]
  ELSE IF o.status >= 400
  THEN [threw |-> TRUE, err |-> ErrorMessage(o), isError |-> TRUE,
        body |-> [range |-> req.kind], sheet |-> s,
        log |-> <<Logged(req, o), Logged(req, o)>>]
  ELSE LET b == Backend(s, req)
       IN  [threw |-> FALSE, err |-> NoText, isError |-> FALSE,
            body |-> IF "body" \in DOMAIN o THEN o.body ELSE b.body,
            sheet |-> b.sheet, log |-> <<Logged(req, o)>>]

\* makeRequest: throws when the fetch rejects or the status is >= 400, and
\* returns the response body otherwise.  A request that fails changes
\* nothing on the remote side.
makeRequest(s, req, o) ==
  IF o.rejected
  THEN [threw |-> TRUE, err |-> RejectionMessage(o), isError |-> IsError(o),
        body |-> [range |-> req.kind], sheet |-> s, log |-> <<Logged(req, o)>>]
  ELSE IF o.status >= 400
  THEN [threw |-> TRUE, err |-> ErrorMessage(o), isError |-> TRUE,
        body |-> [range |-> req.kind], sheet |-> s, log |-> <<Logged(req, o)>>]
  ELSE LET b == Backend(s, req)
       IN  [threw |-> FALSE, err |-> NoText, isError |-> FALSE,
            body |-> IF "body" \in DOMAIN o THEN o.body ELSE b.body,
            sheet |-> b.sheet, log |-> <<Logged(req, o)>>]

(***************************************************************************)
(* list: getAppointments, getPatients.                                     *)
(***************************************************************************)
\* IsOwnedBy with the comparison left out, `if (row[13])`: the scan then
\* keeps every row that names any owner
IsOwnedBySomeone(kind, row, userId) == OrElse(Cell(row, UserCol(kind)), "") # ""

\* row[13] === userId, row[10] === userId
IsOwnedBy(kind, row, userId) == Cell(row, UserCol(kind)) = userId

\* for (let i = from; i < rows.length; i++) if (row[userCol] === userId) push
RECURSIVE ScanRows(_, _, _, _, _)
ScanRows(kind, rows, i, userId, acc) ==
  IF ~(i < Len(rows)) THEN acc
  ELSE ScanRows(kind, rows, i + 1, userId,
                IF IsOwnedBy(kind, rows[i + 1], userId)
                THEN Append(acc, ParseRow(kind, rows[i + 1]))
                ELSE acc)

\* RowsToList with the loop started one row late, `for (let i = 2; ...)`
RowsToListFromSecond(kind, body, userId) ==
  LET rows == IF "values" \in DOMAIN body THEN body.values ELSE <<>>
  IN  IF Len(rows) <= 1 THEN <<>> ELSE ScanRows(kind, rows, 2, userId, <<>>)

\* const rows = response.values || []; if (rows.length <= 1) return []; loop
RowsToList(kind, body, userId) ==
  LET rows == IF "values" \in DOMAIN body THEN body.values ELSE <<>>
  IN  IF Len(rows) <= 1 THEN <<>> ELSE ScanRows(kind, rows, 1, userId, <<>>)

\* ListCatch that rethrows, as the catch blocks of the writes do
ListCatchRethrow(r) ==
  [threw |-> TRUE, err |-> r.err, ret |-> <<>>, sheet |-> r.sheet, reqs |-> r.log]

\* catch (error) { console.error(...); return [] }
ListCatch(r) ==
  [threw |-> FALSE, err |-> NoText, ret |-> <<>>, sheet |-> r.sheet, reqs |-> r.log]

getList(kind, s, userId, o) ==
  LET r == makeRequest(s, ListRequest(kind), o)
  IN  IF r.threw THEN ListCatch(r)
      ELSE [threw |-> FALSE, err |-> NoText, ret |-> RowsToList(kind, r.body, userId),
            sheet |-> r.sheet, reqs |-> r.log]

(***************************************************************************)
(* create: createAppointment, createPatient.                               *)
(***************************************************************************)
IdPrefix(kind) == IF kind = "apt" THEN "apt_" ELSE "pat_"

\* `apt_${Date.now()}_${Math.random().toString(36).substr(2, 9)}`: the
\* random part is modelled as a serial number, which never repeats.
NewId(kind, clock, serial) ==
  IdPrefix(kind) \o ToString(clock) \o "_" \o ToString(serial)

\* { ...input, id, createdAt: now, updatedAt: now }
NewEntity(kind, input, clock, serial) ==
  Spread(input, [id |-> NewId(kind, clock, serial),
                 createdAt |-> Iso(clock), updatedAt |-> Iso(clock)])

\* create whose catch block logs the failure and does not rethrow it
createSwallowing(kind, s, input, o, clock, serial) ==
  LET e == NewEntity(kind, input, clock, serial)
      r == makeRequest(s, AppendRequest(kind, EntityRow(kind, e)), o)
  IN  [threw |-> FALSE, err |-> NoText, ret |-> <<e>>, sheet |-> r.sheet, reqs |-> r.log]

create(kind, s, input, o, clock, serial) ==
  LET e == NewEntity(kind, input, clock, serial)
      r == makeRequest(s, AppendRequest(kind, EntityRow(kind, e)), o)
  IN  IF r.threw
      THEN [threw |-> TRUE, err |-> r.err, ret |-> <<>>, sheet |-> r.sheet, reqs |-> r.log]
      ELSE [threw |-> FALSE, err |-> NoText, ret |-> <<e>>, sheet |-> r.sheet, reqs |-> r.log]

(***************************************************************************)
(* update and delete: locate by list and findIndex, then write.            *)
(***************************************************************************)
RECURSIVE FindFrom(_, _, _)
FindFrom(list, id, i) ==
  IF i >= Len(list) THEN -1
  ELSE IF list[i + 1].id = id THEN i
  ELSE FindFrom(list, id, i + 1)

\* list.findIndex(x => x.id === id)
findIndex(list, id) == FindFrom(list, id, 0)

\* IsMissing with the test off by one, `index < -1`: never true
IsMissingLoose(index) == index < -1

\* if (index === -1) throw new Error('... not found')
IsMissing(index) == index = -1

NotFoundMessage(kind) ==
  IF kind = "apt" THEN <<"Appointment not found">> ELSE <<"Patient not found">>

\* const rowNumber = index + 2
RowNumber(index) == index + 2

\* { ...list[index], ...updates, updatedAt: new Date().toISOString() }
Merged(existing, updates, clock) ==
  Spread(Spread(existing, updates), [updatedAt |-> Iso(clock)])

update(kind, s, id, updates, o1, o2, clock) ==
  LET l == getList(kind, s, OrElse(Get(updates, "userId"), ""), o1)
      index == findIndex(l.ret, id)
      row == EntityRow(kind, Merged(At(l.ret, index), updates, clock))
      w == makeRequest(l.sheet, RowPutRequest(kind, RowNumber(index), row), o2)
  IN  IF IsMissing(index)
      THEN [threw |-> TRUE, err |-> NotFoundMessage(kind), ret |-> <<>>,
            sheet |-> l.sheet, reqs |-> l.reqs]
      ELSE [threw |-> w.threw, err |-> w.err, ret |-> <<>>,
            sheet |-> w.sheet, reqs |-> l.reqs \o w.log]

delete(kind, s, id, userId, o1, o2) ==
  LET l == getList(kind, s, userId, o1)
      index == findIndex(l.ret, id)
      w == makeRequest(l.sheet, RowClearRequest(kind, RowNumber(index)), o2)
  IN  IF IsMissing(index)
      THEN [threw |-> TRUE, err |-> NotFoundMessage(kind), ret |-> <<>>,
            sheet |-> l.sheet, reqs |-> l.reqs]
      ELSE [threw |-> w.threw, err |-> w.err, ret |-> <<>>,
            sheet |-> w.sheet, reqs |-> l.reqs \o w.log]

(***************************************************************************)
(* initialize: initializeSheets, ensureAppointmentsSheet,                  *)
(* ensurePatientsSheet.                                                    *)
(***************************************************************************)
\* try { GET header } catch { PUT header }
ensureSheet(kind, s, o1, o2) ==
  LET g == makeRequest(s, HeaderGetRequest(kind), o1)
      p == makeRequest(g.sheet, HeaderPutRequest(kind), o2)
  IN  IF ~g.threw
      THEN [threw |-> FALSE, err |-> NoText, ret |-> <<>>, sheet |-> g.sheet, reqs |-> g.log]
      ELSE [threw |-> p.threw, err |-> p.err, ret |-> <<>>,
            sheet |-> p.sheet, reqs |-> g.log \o p.log]

\* await ensureAppointmentsSheet(); await ensurePatientsSheet()
initializeSheets(s, oa1, oa2, op1, op2) ==
  LET a == ensureSheet("apt", s, oa1, oa2)
      p == ensureSheet("pat", a.sheet, op1, op2)
  IN  IF a.threw THEN a
      ELSE [threw |-> p.threw, err |-> p.err, ret |-> <<>>,
            sheet |-> p.sheet, reqs |-> a.reqs \o p.reqs]

(***************************************************************************)
(* testConnection.                                                         *)
(***************************************************************************)
\* IdMissing with the validation left out
IdMissingNever(config) == FALSE

\* !this.config.spreadsheetId
IdMissing(config) == OrElse(Get(config, "spreadsheetId"), "") = ""

SpreadsheetNotFound ==
  <<"Spreadsheet not found. Please check the spreadsheet ID and make sure it's publicly accessible.">>
AccessDenied == <<"Access denied. Please check your API key and spreadsheet permissions.">>
InvalidRequest == <<"Invalid request. Please check your API key and spreadsheet ID.">>

\* if (errorMessage.includes('404')) ... else if ('403') ... else if ('400') ...
Classify(errorMessage) ==
  IF Includes(errorMessage, <<"4", "0", "4">>) THEN SpreadsheetNotFound
  ELSE IF Includes(errorMessage, <<"4", "0", "3">>) THEN AccessDenied
  ELSE IF Includes(errorMessage, <<"4", "0", "0">>) THEN InvalidRequest
  ELSE errorMessage

\* let errorMessage = 'Connection failed'; if (error instanceof Error) { ... }
CaughtMessage(r) == IF r.isError THEN Classify(r.err) ELSE <<"Connection failed">>

\* HasProperties with the check of the body left out
HasPropertiesAlways(body) == TRUE

\* response && response.properties
HasProperties(body) == "properties" \in DOMAIN body /\ body.properties # ""

testConnection(config, s, o) ==
  LET r == makeRequest(s, ProbeRequest, o)
  IN  IF IdMissing(config)
      THEN [threw |-> FALSE, err |-> NoText, sheet |-> s, reqs |-> <<>>,
            ret |-> <<[success |-> FALSE, error |-> <<"Spreadsheet ID is required">>]>>]
      ELSE IF r.threw
      THEN [threw |-> FALSE, err |-> NoText, sheet |-> r.sheet, reqs |-> r.log,
            ret |-> <<[success |-> FALSE, error |-> CaughtMessage(r)]>>]
      ELSE IF HasProperties(r.body)
      THEN [threw |-> FALSE, err |-> NoText, sheet |-> r.sheet, reqs |-> r.log,
            ret |-> <<[success |-> TRUE]>>]
      ELSE [threw |-> FALSE, err |-> NoText, sheet |-> r.sheet, reqs |-> r.log,
            ret |-> <<[success |-> FALSE, error |-> <<"Invalid spreadsheet response">>]>>]

(***************************************************************************)
(* Inputs of the operations.                                               *)
(***************************************************************************)
\* Omit<Appointment, 'id' | 'createdAt' | 'updatedAt'>: every optional
\* field set, every optional field absent, every optional field empty, and
\* an input without status.
AptInputs ==
  { [patientName |-> "Ann", patientPhone |-> "555", patientEmail |-> "ann@x",
     appointmentDate |-> "2025-02-01", appointmentTime |-> "09:00",
     serviceType |-> "checkup", status |-> "pending", notes |-> "first",
     whatsappMessageId |-> "wa1", smsMessageId |-> "sms1", userId |-> "A"],
    [patientName |-> "Bo", patientPhone |-> "556",
     appointmentDate |-> "2025-02-02", appointmentTime |-> "10:00",
     serviceType |-> "xray", status |-> "confirmed", userId |-> "A"],
    [patientName |-> "Cy", patientPhone |-> "557", patientEmail |-> "",
     appointmentDate |-> "2025-02-03", appointmentTime |-> "11:00",
     serviceType |-> "checkup", status |-> "pending", notes |-> "",
     whatsappMessageId |-> "", smsMessageId |-> "", userId |-> "B"],
    [patientName |-> "Di", patientPhone |-> "558",
     appointmentDate |-> "2025-02-04", appointmentTime |-> "12:00",
     serviceType |-> "checkup", userId |-> "A"] }

\* Omit<Patient, 'id' | 'createdAt' | 'updatedAt'>
PatInputs ==
  { [name |-> "Ann", phone |-> "555", email |-> "ann@x", dateOfBirth |-> "1990-01-01",
     address |-> "1 Main St", emergencyContact |-> "Al", medicalNotes |-> "none",
     userId |-> "A"],
    [name |-> "Bo", phone |-> "556", userId |-> "A"],
    [name |-> "Cy", phone |-> "557", email |-> "", dateOfBirth |-> "", address |-> "",
     emergencyContact |-> "", medicalNotes |-> "", userId |-> "B"] }

Inputs(kind) == IF kind = "apt" THEN AptInputs ELSE PatInputs

\* Partial<Appointment>, Partial<Patient>: the fields an update changes
Partials(kind) ==
  IF kind = "apt"
  THEN { [status |-> "cancelled"], [notes |-> "late"] }
  ELSE { [phone |-> "777"], [medicalNotes |-> "allergy"] }

\* a partial that carries the record's time stamps, which the Partial types
\* allow
Restamp ==
  [createdAt |-> "2020-06-01T00:00:00.000Z", updatedAt |-> "2020-06-01T00:00:00.000Z",
   userId |-> "A"]

\* the updates argument: the changed fields with the caller's userId, one
\* call that carries no userId, and one that carries time stamps
Updates(kind) ==
  LET p1 == CHOOSE p \in Partials(kind) : TRUE
  IN  { Spread(p, [userId |-> "A"]) : p \in Partials(kind) }
        \cup { Spread(p1, [userId |-> "B"]), p1, Restamp }

\* an id no row carries
NoSuchId == "nope"

\* the ids of the rows of a tab that name an owner
IdsIn(kind, t) ==
  { Cell(t[n], 0) : n \in { m \in 1..Len(t) : Cell(t[m], UserCol(kind)) \in Owners } }

(***************************************************************************)
(* Tabs the store may find.  The records in them are rows written earlier  *)
(* by create (of this or of another session), at times before the clock's  *)
(* first value: an empty tab; the header row only; a record of owner B, a  *)
(* blank gap left by a delete, a short hand-typed row, a record of owner   *)
(* A; two records of each owner.                                           *)
(***************************************************************************)
\* the n-th earlier record of an owner
OldRow(kind, owner, n) ==
  EntityRow(kind, NewEntity(kind, CHOOSE i \in Inputs(kind) : i.userId = owner, 0, n))

ShortRow == << "x_1", "Zed" >>

InitTabs(kind) ==
  { <<>>,
    << Headers(kind) >>,
    << Headers(kind), OldRow(kind, "B", 1), <<>>, ShortRow, OldRow(kind, "A", 2) >>,
    << Headers(kind), OldRow(kind, "B", 1), OldRow(kind, "A", 2),
       OldRow(kind, "A", 3), OldRow(kind, "B", 4) >> }

\* the tab of the other kind: empty, or with its header row
OtherTabs(kind) == { <<>>, << Headers(kind) >> }

\* how a request may fail in the operations that write: an error status
WriteOracles == { o \in Oracles : ~o.rejected }

\* the answers to a request that is issued only when `issued` holds
OraclesIf(issued) == IF issued THEN WriteOracles ELSE {OkOracle}

Failed(o) == o.rejected \/ o.status >= 400

\* the configurations a service is constructed with: an identifier, the
\* empty identifier, no identifier
Configs == { [spreadsheetId |-> "sheet-1"], [spreadsheetId |-> ""], [apiKey |-> ""] }

\* error.message of a failing response: absent, plain, or quoting numbers
ProviderMessages ==
  { NoText, <<"Internal error">>,
    <<"Quota of project ">> \o Digits(404) \o <<" exceeded">>,
    <<"Limit of ">> \o Digits(4030) \o <<" cells reached">> }

\* error.details of a failing response, when it has them
ProviderDetails == { << <<"RATE_">> \o Digits(400) >> }

\* the answers to the metadata probe: the fetch rejects with an Error or
\* with another value; a response with a failing status, with or without
\* an error message and details; the metadata; a body without properties
ProbeAnswers ==
  { [rejected |-> TRUE, status |-> 0, isError |-> e] : e \in BOOLEAN }
    \cup { [rejected |-> FALSE, status |-> n, message |-> m] :
              n \in {400, 403, 404, 500}, m \in ProviderMessages }
    \cup { [rejected |-> FALSE, status |-> n, details |-> d] :
              n \in {403, 500}, d \in ProviderDetails }
    \cup { OkOracle, [rejected |-> FALSE, status |-> 200, body |-> [error |-> ""]] }

(***************************************************************************)
(* State.                                                                  *)
(***************************************************************************)
VARIABLES
  sheet,    \* [Kinds -> tab]: the rows of the two tabs
  view,     \* the kind of entity the session works on (appointments view, patients view)
  now,      \* the clock, Date.now(): one tick passes with every operation
  serial,   \* the serial number of the next id generated
  inited,   \* initializeSheets has completed without an error
  last,     \* the last operation run: its arguments, the tabs before it, and its outcome
  pending,  \* the update of a second session that has done its scan and not yet its write
  provider  \* GoogleSheetsProvider: its state and the connection tests it has started

vars == << sheet, view, now, serial, inited, last, pending, provider >>

NoOp ==
  [op |-> "none", kind |-> "apt", id |-> "", userId |-> "", data |-> [f \in {} |-> ""],
   pre |-> [k \in Kinds |-> <<>>], at |-> 0,
   threw |-> FALSE, err |-> NoText, ret |-> <<>>, reqs |-> <<>>]

\* no update is between its scan and its write
NoPending == [active |-> FALSE]

\* setConfig(null), useState<GoogleSheetsService | null>(null)
NullConfig == [null |-> TRUE]

NoService == [null |-> TRUE]

\* GoogleSheetsProvider before its mount effect: the useState initial values,
\* no connection test started (flight), none passed
Unmounted ==
  [mounted |-> FALSE, config |-> NullConfig, service |-> NoService,
   isConnected |-> FALSE, flight |-> {}, passed |-> {}]

Init ==
  /\ view \in Kinds
  /\ \E t \in InitTabs(view) : \E u \in UNION { OtherTabs(k) : k \in Kinds \ {view} } :
       sheet = [k \in Kinds |-> IF k = view THEN t ELSE u]
  /\ now = 1
  /\ serial = 1
  /\ inited = FALSE
  /\ last = NoOp
  /\ pending = NoPending
  /\ provider = Unmounted

\* what an operation leaves in last
Done(op, kind, id, userId, data, r) ==
  [op |-> op, kind |-> kind, id |-> id, userId |-> userId, data |-> data,
   pre |-> sheet, at |-> now,
   threw |-> r.threw, err |-> r.err, ret |-> r.ret, reqs |-> r.reqs]

Initialize ==
  /\ now <= MaxClock
  /\ \E oa1 \in WriteOracles : \E oa2 \in OraclesIf(Failed(oa1)) :
     \E op1 \in OraclesIf(~Failed(oa2)) : \E op2 \in OraclesIf(~Failed(oa2) /\ Failed(op1)) :
       \E r \in { initializeSheets(sheet, oa1, oa2, op1, op2) } :
         /\ sheet' = r.sheet
         /\ inited' = (inited \/ ~r.threw)
         /\ last' = Done("initialize", "apt", "", "", NoOp.data, r)
  /\ now' = now + 1
  /\ UNCHANGED << view, serial, pending, provider >>

List ==
  /\ now <= MaxClock
  /\ \E userId \in Owners, o \in Oracles :
       \E r \in { getList(view, sheet, userId, o) } :
         /\ sheet' = r.sheet
         /\ last' = Done("list", view, "", userId, NoOp.data, r)
  /\ now' = now + 1
  /\ UNCHANGED << view, serial, inited, pending, provider >>

Create ==
  /\ now <= MaxClock
  /\ \E input \in Inputs(view), o \in WriteOracles :
       \E r \in { create(view, sheet, input, o, now, serial) } :
         /\ sheet' = r.sheet
         /\ last' = Done("create", view, NewId(view, now, serial), input.userId, input, r)
  /\ serial' = serial + 1
  /\ now' = now + 1
  /\ UNCHANGED << view, inited, pending, provider >>

\* the locating scan of update and delete finds the id
Located(kind, s, id, userId, o) ==
  ~IsMissing(findIndex(getList(kind, s, userId, o).ret, id))

Update ==
  /\ now <= MaxClock
  /\ \E id \in IdsIn(view, sheet[view]) \cup {NoSuchId}, updates \in Updates(view) :
     \E o1 \in WriteOracles :
     \E o2 \in OraclesIf(Located(view, sheet, id, OrElse(Get(updates, "userId"), ""), o1)) :
       \E r \in { update(view, sheet, id, updates, o1, o2, now) } :
         /\ sheet' = r.sheet
         /\ last' = Done("update", view, id, OrElse(Get(updates, "userId"), ""), updates, r)
  /\ now' = now + 1
  /\ UNCHANGED << view, serial, inited, pending, provider >>

Delete ==
  /\ now <= MaxClock
  /\ \E id \in IdsIn(view, sheet[view]) \cup {NoSuchId}, userId \in Owners :
     \E o1 \in WriteOracles :
     \E o2 \in OraclesIf(Located(view, sheet, id, userId, o1)) :
       \E r \in { delete(view, sheet, id, userId, o1, o2) } :
         /\ sheet' = r.sheet
         /\ last' = Done("delete", view, id, userId, NoOp.data, r)
  /\ now' = now + 1
  /\ UNCHANGED << view, serial, inited, pending, provider >>

\* the settings screen and the provider construct a service from a stored
\* or typed configuration and probe the spreadsheet with it; last.data
\* keeps the configuration and the answer
TestConnection ==
  /\ now <= MaxClock
  /\ \E config \in Configs :
     \E o \in IF IdMissing(config) THEN {OkOracle} ELSE ProbeAnswers :
       \E r \in { testConnection(config, sheet, o) } :
         /\ sheet' = r.sheet
         /\ last' = Done("test", "apt", "", "", [config |-> config, answer |-> o], r)
  /\ now' = now + 1
  /\ UNCHANGED << view, serial, inited, pending, provider >>

Next == Initialize \/ List \/ Create \/ Update \/ Delete

Spec == Init /\ [][Next]_vars

(***************************************************************************)
(* GoogleSheetsSettings.handleSave.  The result keeps what the handler     *)
(* left behind (isLoading, whether the configuration was written to        *)
(* localStorage, whether onConfigChange was called, connectionError) and   *)
(* the calls it made, in their order.                                      *)
(***************************************************************************)
\* result.error || 'Failed to connect to Google Sheets. Please check your configuration.'
SaveTestError(result) ==
  IF "error" \in DOMAIN result /\ result.error # NoText THEN result.error
  ELSE <<"Failed to connect to Google Sheets. Please check your configuration.">>

\* what handleSave leaves behind
Saved(isLoading, persisted, notified, connectionError, events) ==
  <<[isLoading |-> isLoading, persisted |-> persisted, notified |-> notified,
     connectionError |-> connectionError, events |-> events]>>

\* handleSave that initializes the tabs before it looks at the test's result
handleSaveEager(config, s, o, oa1, oa2, op1, op2) ==
  LET t == testConnection(config, s, o)
      i == initializeSheets(t.sheet, oa1, oa2, op1, op2)
  IN  IF IdMissing(config)
      THEN [threw |-> FALSE, err |-> NoText, sheet |-> s, reqs |-> <<>>,
            ret |-> Saved(FALSE, FALSE, FALSE, NoText, <<"toast.error">>)]
      ELSE IF ~t.ret[1].success \/ i.threw
      THEN [threw |-> FALSE, err |-> NoText, sheet |-> i.sheet, reqs |-> t.reqs \o i.reqs,
            ret |-> Saved(FALSE, FALSE, FALSE, SaveTestError(t.ret[1]),
                          <<"setIsLoading(true)", "testConnection", "initializeSheets",
                            "toast.error", "setIsLoading(false)">>)]
      ELSE [threw |-> FALSE, err |-> NoText, sheet |-> i.sheet, reqs |-> t.reqs \o i.reqs,
            ret |-> Saved(FALSE, TRUE, TRUE, NoText,
                          <<"setIsLoading(true)", "testConnection", "initializeSheets",
                            "localStorage.setItem", "onConfigChange", "toast.success",
                            "setIsLoading(false)">>)]

handleSave(config, s, o, oa1, oa2, op1, op2) ==
  LET t == testConnection(config, s, o)
      i == initializeSheets(t.sheet, oa1, oa2, op1, op2)
  IN  IF IdMissing(config)
      THEN [threw |-> FALSE, err |-> NoText, sheet |-> s, reqs |-> <<>>,
            ret |-> Saved(FALSE, FALSE, FALSE, NoText, <<"toast.error">>)]
      ELSE IF ~t.ret[1].success
      THEN [threw |-> FALSE, err |-> NoText, sheet |-> t.sheet, reqs |-> t.reqs,
            ret |-> Saved(FALSE, FALSE, FALSE, SaveTestError(t.ret[1]),
                          <<"setIsLoading(true)", "testConnection", "toast.error",
                            "setIsLoading(false)">>)]
      ELSE IF i.threw
      THEN [threw |-> FALSE, err |-> NoText, sheet |-> i.sheet, reqs |-> t.reqs \o i.reqs,
            ret |-> Saved(FALSE, FALSE, FALSE, i.err,
                          <<"setIsLoading(true)", "testConnection", "initializeSheets",
                            "toast.error", "setIsLoading(false)">>)]
      ELSE [threw |-> FALSE, err |-> NoText, sheet |-> i.sheet, reqs |-> t.reqs \o i.reqs,
            ret |-> Saved(FALSE, TRUE, TRUE, NoText,
                          <<"setIsLoading(true)", "testConnection", "initializeSheets",
                            "localStorage.setItem", "onConfigChange", "toast.success",
                            "setIsLoading(false)">>)]

\* the probe of handleSave with this configuration and answer succeeds
SaveTestPasses(config, s, o) == testConnection(config, s, o).ret[1].success

HandleSave ==
  /\ now <= MaxClock
  /\ \E config \in Configs :
     \E o \in IF IdMissing(config) THEN {OkOracle} ELSE ProbeAnswers :
     \E oa1 \in OraclesIf(SaveTestPasses(config, sheet, o)) :
     \E oa2 \in OraclesIf(Failed(oa1)) :
     \E op1 \in OraclesIf(SaveTestPasses(config, sheet, o) /\ ~Failed(oa2)) :
     \E op2 \in OraclesIf(~Failed(oa2) /\ Failed(op1)) :
       \E r \in { handleSave(config, sheet, o, oa1, oa2, op1, op2) } :
         /\ sheet' = r.sheet
         /\ last' = Done("save", "apt", "", "", [config |-> config, answer |-> o], r)
  /\ now' = now + 1
  /\ UNCHANGED << view, serial, inited, pending, provider >>

\* the settings screen: probe the spreadsheet, initialize the tabs, save
SettingsNext == TestConnection \/ Initialize \/ HandleSave

SettingsSpec == Init /\ [][SettingsNext]_vars

(***************************************************************************)
(* Two sessions.  The operations above are one session's, each run from    *)
(* its first request to its last without another request in between.  The  *)
(* update of a second session is run in its two steps, the locating scan   *)
(* and the overwrite, and the first session's operations may complete      *)
(* between them.                                                           *)
(***************************************************************************)
\* update up to the await of its overwrite: the scan, findIndex, the merged
\* record and its row, the row number
updateScan(kind, s, id, updates, o1, clock) ==
  LET l == getList(kind, s, OrElse(Get(updates, "userId"), ""), o1)
      index == findIndex(l.ret, id)
  IN  [missing |-> IsMissing(index), index |-> index, rowNumber |-> RowNumber(index),
       row |-> IF IsMissing(index) THEN <<>>
               ELSE EntityRow(kind, Merged(At(l.ret, index), updates, clock)),
       sheet |-> l.sheet, reqs |-> l.reqs]

\* updateWrite that looks for the row holding the record's id once more and
\* writes there, or raises Not-found when no row holds it
updateWriteRelocating(kind, s, rowNumber, row, o2) ==
  LET holding == { n \in 2..Len(s[kind]) : Cell(s[kind][n], 0) = Cell(row, 0) }
  IN  IF holding = {}
      THEN [threw |-> TRUE, err |-> NotFoundMessage(kind), isError |-> TRUE,
            body |-> [range |-> kind], sheet |-> s, log |-> <<>>]
      ELSE makeRequest(s, RowPutRequest(kind, CHOOSE n \in holding : TRUE, row), o2)

\* the overwrite of update, sent to the tabs as they are by then
updateWrite(kind, s, rowNumber, row, o2) ==
  makeRequest(s, RowPutRequest(kind, rowNumber, row), o2)

UpdateScan ==
  /\ now <= MaxClock
  /\ ~pending.active
  /\ \E id \in IdsIn(view, sheet[view]), updates \in Updates(view) :
       \E r \in { updateScan(view, sheet, id, updates, OkOracle, now) } :
         /\ ~r.missing
         /\ pending' = [active |-> TRUE, kind |-> view, id |-> id, updates |-> updates,
                        rowNumber |-> r.rowNumber, row |-> r.row, reqs |-> r.reqs,
                        scanned |-> sheet, at |-> now]
  /\ now' = now + 1
  /\ UNCHANGED << sheet, view, serial, inited, last, provider >>

\* last keeps, with the outcome of the update, the tabs at the scan, the row
\* sent, and the operation that completed last before the overwrite
UpdateWrite ==
  /\ pending.active
  /\ \E o2 \in WriteOracles :
       \E w \in { updateWrite(pending.kind, sheet, pending.rowNumber, pending.row, o2) } :
         /\ sheet' = w.sheet
         /\ last' = [op |-> "write", kind |-> pending.kind, id |-> pending.id,
                     userId |-> OrElse(Get(pending.updates, "userId"), ""),
                     data |-> pending.updates, pre |-> sheet, at |-> pending.at,
                     threw |-> w.threw, err |-> w.err, ret |-> <<>>,
                     reqs |-> pending.reqs \o w.log,
                     scanned |-> pending.scanned, sent |-> pending.row,
                     rowNumber |-> pending.rowNumber,
                     after |-> [op |-> last.op, id |-> last.id, userId |-> last.userId,
                                threw |-> last.threw, at |-> last.at]]
  /\ pending' = NoPending
  /\ UNCHANGED << view, now, serial, inited, provider >>

\* an operation of the first session that completes while the update of the
\* second is between its scan and its write
Interposed == pending.active /\ (Create \/ Update \/ Delete)

RaceNext == UpdateScan \/ Interposed \/ UpdateWrite

RaceSpec == Init /\ [][RaceNext]_vars

(***************************************************************************)
(* GoogleSheetsProvider.  A service is identified by the clock value at    *)
(* which it was constructed; a connection test that was started and has    *)
(* not settled is in flight, and tests settle in any order.                *)
(***************************************************************************)
\* new GoogleSheetsService(config); setService(newService);
\* newService.testConnection().then(...)
Installed(p, config, clock) ==
  [p EXCEPT !.config = config,
            !.service = [gen |-> clock, config |-> config],
            !.flight = @ \cup {[gen |-> clock, config |-> config]}]

\* setService(null); setIsConnected(false)
Removed(p) ==
  [p EXCEPT !.config = NullConfig, !.service = NoService, !.isConnected = FALSE]

\* the body of setConfig
setConfig(p, newConfig, clock) ==
  IF newConfig # NullConfig THEN Installed(p, newConfig, clock) ELSE Removed(p)

\* .then(result => { setIsConnected(result.success) ... })
Settled(p, t, result) ==
  [p EXCEPT !.isConnected = result.success,
            !.flight = @ \ {t},
            !.passed = IF result.success THEN @ \cup {t.gen} ELSE @]

\* the answers to the probe of a connection test started by the provider
SettleAnswers(config) ==
  IF IdMissing(config) THEN {OkOracle}
  ELSE {OkOracle, [rejected |-> FALSE, status |-> 404, message |-> NoText]}

\* the mount effect: the configuration saved in localStorage, if there is
\* one, is installed and its connection test started
Mount ==
  /\ now <= MaxClock
  /\ ~provider.mounted
  /\ \E saved \in Configs \cup {NullConfig} :
       provider' = [(IF saved = NullConfig THEN provider
                     ELSE Installed(provider, saved, now)) EXCEPT !.mounted = TRUE]
  /\ now' = now + 1
  /\ UNCHANGED << sheet, view, serial, inited, last, pending >>

SetConfig ==
  /\ now <= MaxClock
  /\ provider.mounted
  /\ \E newConfig \in Configs \cup {NullConfig} :
       provider' = setConfig(provider, newConfig, now)
  /\ now' = now + 1
  /\ UNCHANGED << sheet, view, serial, inited, last, pending >>

\* a connection test in flight settles
TestSettles ==
  /\ \E t \in provider.flight : \E o \in SettleAnswers(t.config) :
       \E r \in { testConnection(t.config, sheet, o) } :
         provider' = Settled(provider, t, r.ret[1])
  /\ UNCHANGED << sheet, view, now, serial, inited, last, pending >>

ProviderNext == Mount \/ SetConfig \/ TestSettles

ProviderSpec == Init /\ [][ProviderNext]_vars

\* every operation of the service, tried on every tab of Init
OpsNext ==
  /\ now <= MaxOps
  /\ (Initialize \/ List \/ Create \/ Update \/ Delete \/ TestConnection)

OpsSpec == Init /\ [][OpsNext]_vars

(***************************************************************************)
(* Vocabulary of the properties.                                           *)
(***************************************************************************)
FieldSet(kind) == { Fields(kind)[i] : i \in 1..Len(Fields(kind)) }

\* list(userId) on the tabs s, the fetch succeeding
ListOf(kind, s, userId) == getList(kind, s, userId, OkOracle).ret

\* the positions in a list of the records with an id
WithId(l, id) == { i \in 1..Len(l) : l[i].id = id }

\* the clock value of a timestamp
TimeOf(stamp) == CHOOSE n \in 0..(MaxClock + 1) : Iso(n) = stamp

\* an absent optional field is stored, and read back, as the empty string
Stored(v) == IF v = UNDEF THEN "" ELSE v

\* the input of a create carries every required field
ValidInput(kind, input) == kind = "apt" => "status" \in DOMAIN input

\* the data rows (row 2 and below) of a tab whose owner column is userId
OwnedRows(kind, t, userId) ==
  { n \in 2..Len(t) : Cell(t[n], UserCol(kind)) = userId }

\* the data rows of a tab that hold the record with an id of an owner
RowsHolding(kind, t, id, userId) ==
  { n \in OwnedRows(kind, t, userId) : Cell(t[n], 0) = id }

HasHeader(kind, t) == Len(t) >= 1 /\ t[1] = Headers(kind)

\* the requests of the last operation with a method and a range
Issued(method, range) ==
  { q \in 1..Len(last.reqs) :
      last.reqs[q].method = method /\ last.reqs[q].range = range }

FailedRequest(q) == last.reqs[q].rejected \/ last.reqs[q].status >= 400

\* serialise, then parse
RoundTrip(kind, e) == ParseRow(kind, JsonRow(EntityRow(kind, e)))

(***************************************************************************)
(* C1.  After a successful initialize, when create(input) returns r, list  *)
(* of the input's owner holds exactly one record with r's id, and its      *)
(* fields are the input's with r's id, createdAt and updatedAt (an absent  *)
(* optional field reading as the empty string).                            *)
(***************************************************************************)
C1_CreateThenList ==
  (last.op = "create" /\ ~last.threw /\ inited /\ ValidInput(last.kind, last.data)) =>
    LET r == last.ret[1]
        l == ListOf(last.kind, sheet, last.userId)
    IN  /\ Cardinality(WithId(l, r.id)) = 1
        /\ \A i \in WithId(l, r.id) :
             \A f \in FieldSet(last.kind) : l[i][f] = Stored(Get(r, f))

(***************************************************************************)
(* C2.  After update(id, {field: v}) by the record's owner succeeds, list  *)
(* of the owner holds the record with that id, with field = v, the other   *)
(* fields and createdAt as before, and updatedAt not earlier than before.  *)
(***************************************************************************)
C2_UpdateThenList ==
  (last.op = "update" /\ ~last.threw /\ last.userId \in Owners) =>
    LET before == ListOf(last.kind, last.pre, last.userId)
        after == ListOf(last.kind, sheet, last.userId)
        changed == (DOMAIN last.data) \ {"userId"}
    IN  /\ WithId(after, last.id) # {}
        /\ \A i \in WithId(after, last.id) : \A j \in WithId(before, last.id) :
             /\ \A f \in changed : after[i][f] = last.data[f]
             /\ \A f \in FieldSet(last.kind) \ (changed \cup {"updatedAt"}) :
                  after[i][f] = before[j][f]
             /\ TimeOf(after[i].updatedAt) >= TimeOf(before[j].updatedAt)

(***************************************************************************)
(* C3.  After delete(id, owner) succeeds, list(owner) holds no record with *)
(* that id, and a second delete(id, owner) fails with the Not-found error. *)
(***************************************************************************)
C3_DeleteThenList ==
  (last.op = "delete" /\ ~last.threw) =>
    /\ WithId(ListOf(last.kind, sheet, last.userId), last.id) = {}
    /\ LET again == delete(last.kind, sheet, last.id, last.userId, OkOracle, OkOracle)
       IN  again.threw /\ again.err = NotFoundMessage(last.kind)

(***************************************************************************)
(* C4.  Every record list(userId) returns has its owner field equal to     *)
(* userId, whatever the tab holds.                                         *)
(***************************************************************************)
C4_ListOnlyOwner ==
  last.op = "list" =>
    \A i \in 1..Len(last.ret) : last.ret[i].userId = last.userId

\* a list that returned records from a tab that also holds a record of
\* another owner, a blank row and a row too short to name an owner
C4_Witness ==
  /\ last.op = "list"
  /\ last.ret # <<>>
  /\ LET t == last.pre[last.kind]
     IN  /\ \E n \in 2..Len(t) : Cell(t[n], UserCol(last.kind)) \in Owners \ {last.userId}
         /\ \E n \in 2..Len(t) : t[n] = <<>>
         /\ \E n \in 2..Len(t) : t[n] # <<>> /\ Cell(t[n], UserCol(last.kind)) = UNDEF

(***************************************************************************)
(* C5.  On a tab with a header row that holds N data rows of owner A and N *)
(* of owner B, list(A) returns exactly the records of A's rows, one per    *)
(* row, in the order of the rows, and none of B's.                         *)
(***************************************************************************)
C5_ListComplete ==
  LET k == last.kind
      t == last.pre[k]
      mine == OwnedRows(k, t, last.userId)
  IN  ( /\ last.op = "list"
        /\ ~FailedRequest(1)
        /\ HasHeader(k, t)
        /\ \A u \in Owners : Cardinality(OwnedRows(k, t, u)) = Cardinality(mine) ) =>
        /\ Len(last.ret) = Cardinality(mine)
        /\ \A n \in mine :
             last.ret[Cardinality({ m \in mine : m <= n })] = ParseRow(k, t[n])
        /\ \A i \in 1..Len(last.ret) : last.ret[i].userId \notin Owners \ {last.userId}

\* a list on a tab that holds two records of each owner
C5_Witness ==
  /\ last.op = "list"
  /\ ~FailedRequest(1)
  /\ HasHeader(last.kind, last.pre[last.kind])
  /\ \A u \in Owners : Cardinality(OwnedRows(last.kind, last.pre[last.kind], u)) = 2
  /\ Len(last.ret) = 2

(***************************************************************************)
(* C6.  update overwrites exactly the row that holds the record with the   *)
(* id: the row written is row i + 2, i the record's position (from 0)      *)
(* among all data rows, and every other row is left as it was.             *)
(***************************************************************************)
C6_UpdateWritesOwnRow ==
  (last.op = "update" /\ ~last.threw) =>
    LET pre == last.pre[last.kind]
        post == sheet[last.kind]
    IN  \E n \in RowsHolding(last.kind, pre, last.id, last.userId) :
          /\ \E q \in Issued("PUT", "row") : last.reqs[q].row = n
          /\ Len(post) = Len(pre)
          /\ \A m \in 1..Len(pre) : m # n => post[m] = pre[m]

(***************************************************************************)
(* C7.  delete clears exactly the row that holds the record with the id:   *)
(* the row stays as a blank gap, no other row changes, every other record  *)
(* keeps its row number.                                                   *)
(***************************************************************************)
C7_DeleteClearsOwnRow ==
  (last.op = "delete" /\ ~last.threw) =>
    LET pre == last.pre[last.kind]
        post == sheet[last.kind]
    IN  \E n \in RowsHolding(last.kind, pre, last.id, last.userId) :
          /\ \E q \in Issued("POST", "clear") : last.reqs[q].row = n
          /\ Len(post) = Len(pre)
          /\ post[n] = <<>>
          /\ \A m \in 1..Len(pre) : m # n => post[m] = pre[m]

(***************************************************************************)
(* C8.  update with an id that no record of the given owner carries raises *)
(* the Not-found error, issues no overwrite request and leaves every row   *)
(* of both tabs unchanged.                                                 *)
(***************************************************************************)
C8_UpdateMissingId ==
  ( /\ last.op = "update"
    /\ RowsHolding(last.kind, last.pre[last.kind], last.id, last.userId) = {} ) =>
    /\ last.threw
    /\ last.err = NotFoundMessage(last.kind)
    /\ Issued("PUT", "row") = {}
    /\ sheet = last.pre

\* an update that named the id of a record of another owner, and one that
\* named an id no row carries, both on a tab that holds records
C8_Witness ==
  /\ last.op = "update"
  /\ last.threw
  /\ last.err = NotFoundMessage(last.kind)
  /\ OwnedRows(last.kind, last.pre[last.kind], last.userId) # {}
  /\ \E n \in 2..Len(last.pre[last.kind]) : Cell(last.pre[last.kind][n], 0) = last.id
  /\ ~FailedRequest(1)

(***************************************************************************)
(* C9.  Round trip.  As claimed: parsing the row that serialises an entity *)
(* yields the entity field for field, absent optional fields included.     *)
(***************************************************************************)
C9_RoundTripExact ==
  (last.op = "create" /\ ~last.threw /\ ValidInput(last.kind, last.data)) =>
    \A f \in FieldSet(last.kind) :
      Get(RoundTrip(last.kind, last.ret[1]), f) = Get(last.ret[1], f)

(***************************************************************************)
(* C9, amended.  Parsing the row that serialises an entity whose required  *)
(* fields are present yields the entity field for field, except that an    *)
(* absent optional field comes back as the empty string; an entity that a  *)
(* list returned comes back unchanged.                                     *)
(***************************************************************************)
C9_RoundTrip ==
  /\ (last.op = "create" /\ ~last.threw /\ ValidInput(last.kind, last.data)) =>
       \A f \in FieldSet(last.kind) :
         RoundTrip(last.kind, last.ret[1])[f] = Stored(Get(last.ret[1], f))
  /\ last.op = "list" =>
       \A i \in 1..Len(last.ret) : RoundTrip(last.kind, last.ret[i]) = last.ret[i]

\* a create of each kind: of an entity without its optional fields, and of
\* an entity whose optional fields are empty
C9_Witness ==
  /\ last.op = "create"
  /\ ~last.threw
  /\ ValidInput(last.kind, last.data)
  /\ last.kind = "pat"
  /\ "email" \notin DOMAIN last.data

(***************************************************************************)
(* C10.  list never raises; it returns the empty sequence when the tab is  *)
(* empty or holds the header row only, and when its fetch fails (a status  *)
(* >= 400, or the fetch rejecting).                                        *)
(***************************************************************************)
C10_ListNeverRaises ==
  last.op = "list" =>
    /\ ~last.threw
    /\ last.err = NoText
    /\ Len(last.reqs) = 1
    /\ (FailedRequest(1) \/ Len(last.pre[last.kind]) <= 1) => last.ret = <<>>

\* a list whose fetch was rejected, on a tab that holds records of the owner
C10_Witness ==
  /\ last.op = "list"
  /\ last.reqs[1].rejected
  /\ OwnedRows(last.kind, last.pre[last.kind], last.userId) # {}
  /\ last.ret = <<>>

(***************************************************************************)
(* C11.  Write failures propagate: when the write request of create        *)
(* (append), update (overwrite) or delete (clear) fails, the operation     *)
(* raises an error, create returns no record, and both tabs are as they    *)
(* were before the operation.                                              *)
(***************************************************************************)
\* the write requests of the last operation
WriteRequests ==
  Issued("POST", "append") \cup Issued("PUT", "row") \cup Issued("POST", "clear")

C11_WriteFailurePropagates ==
  ( /\ last.op \in {"create", "update", "delete"}
    /\ \E q \in WriteRequests : FailedRequest(q) ) =>
    /\ last.threw
    /\ last.err # NoText
    /\ last.ret = <<>>
    /\ sheet = last.pre

\* an update whose scan found the record and whose overwrite request was
\* answered with an error status
C11_Witness ==
  /\ last.op = "update"
  /\ RowsHolding(last.kind, last.pre[last.kind], last.id, last.userId) # {}
  /\ \E q \in Issued("PUT", "row") : FailedRequest(q)
  /\ last.threw

(***************************************************************************)
(* C12.  For each tab, initialize issues the overwrite of row 1 with the   *)
(* canonical header exactly when the fetch of the header range failed or   *)
(* returned no values; when the fetch returns a populated row 1,           *)
(* initialize issues no write for that tab.                                *)
(***************************************************************************)
\* the header fetches and header overwrites of a tab by the last operation
HeaderFetches(kind) ==
  { q \in Issued("GET", "row") : last.reqs[q].kind = kind /\ last.reqs[q].row = 1 }

HeaderWrites(kind) ==
  { q \in Issued("PUT", "row") : last.reqs[q].kind = kind /\ last.reqs[q].row = 1 }

\* row 1 of a tab holds no value
NoHeaderValues(t) == Len(t) = 0 \/ t[1] = <<>>

C12_HeaderWrittenWhenMissing ==
  last.op = "initialize" =>
    \A kind \in Kinds : \A q \in HeaderFetches(kind) :
      (HeaderWrites(kind) # {}) <=> (FailedRequest(q) \/ NoHeaderValues(last.pre[kind]))

(***************************************************************************)
(* C13.  initialize is idempotent: whatever the tabs hold, a second        *)
(* initialize run after the first leaves both tabs as the first left       *)
(* them; and initialize changes no row other than row 1.                   *)
(***************************************************************************)
\* the tabs after one more initialize, its requests answered by the oracles
InitializedAgain(oa1, oa2, op1, op2) == initializeSheets(sheet, oa1, oa2, op1, op2).sheet

\* rows 2 and below of every tab are as before the last operation
BelowRowOneUnchanged ==
  \A kind \in Kinds :
    /\ Len(sheet[kind]) >= Len(last.pre[kind])
    /\ Len(sheet[kind]) <= 1 \/ Len(sheet[kind]) = Len(last.pre[kind])
    /\ \A n \in 2..Len(last.pre[kind]) : sheet[kind][n] = last.pre[kind][n]

C13_InitializeIdempotent ==
  last.op = "initialize" =>
    /\ \A oa1 \in WriteOracles, oa2 \in WriteOracles, op1 \in WriteOracles, op2 \in WriteOracles :
         InitializedAgain(oa1, oa2, op1, op2) = sheet
    /\ BelowRowOneUnchanged

(***************************************************************************)
(* C14.  Once initialize has succeeded, in every state reached by create,  *)
(* update and delete, row 1 of each tab holds the canonical header and     *)
(* every stored record is in row 2 or below; no create, update or delete   *)
(* writes or clears row 1.                                                 *)
(***************************************************************************)
\* the last operation wrote or cleared row 1 of a tab
TouchedRowOne ==
  \/ \E q \in Issued("PUT", "row") \cup Issued("POST", "clear") : last.reqs[q].row = 1
  \/ \E q \in Issued("POST", "append") :
       ~FailedRequest(q) /\ Len(last.pre[last.reqs[q].kind]) = 0

C14_HeaderRowKept ==
  inited =>
    /\ \A kind \in Kinds : HasHeader(kind, sheet[kind])
    /\ \A kind \in Kinds : \A n \in 1..Len(sheet[kind]) :
         Cell(sheet[kind][n], UserCol(kind)) \in Owners => n >= 2
    /\ last.op \in {"create", "update", "delete"} => ~TouchedRowOne

(***************************************************************************)
(* C15.  testConnection on a store whose spreadsheet identifier is missing *)
(* or empty returns {success: false, error: 'Spreadsheet ID is required'}  *)
(* and issues no request.                                                  *)
(***************************************************************************)
\* the configuration of the last testConnection names no spreadsheet
TestedWithoutId ==
  /\ last.op = "test"
  /\ "spreadsheetId" \notin DOMAIN last.data.config \/ last.data.config.spreadsheetId = ""

C15_MissingIdentifier ==
  TestedWithoutId =>
    /\ ~last.threw
    /\ last.ret = <<[success |-> FALSE, error |-> <<"Spreadsheet ID is required">>]>>
    /\ last.reqs = <<>>
    /\ sheet = last.pre

\* a probe by a service whose configuration carries no identifier
C15_Witness ==
  /\ TestedWithoutId
  /\ "spreadsheetId" \notin DOMAIN last.data.config
  /\ Len(last.ret) = 1

(***************************************************************************)
(* C16.  testConnection never raises and always returns a result: success  *)
(* is true only when the identifier is present, the metadata probe was     *)
(* answered with a status below 400 and the response carries properties;   *)
(* in every other case success is false and error is a non-empty message.  *)
(***************************************************************************)
\* the last testConnection had an identifier, and its probe was answered
\* with a status below 400 and a body that carries properties
ProbeSucceeded ==
  /\ ~TestedWithoutId
  /\ ~last.data.answer.rejected
  /\ last.data.answer.status < 400
  /\ "body" \in DOMAIN last.data.answer => "properties" \in DOMAIN last.data.answer.body

CreatedAtOf(kind, s, id) ==
  UNION { { ListOf(kind, s, u)[i].createdAt : i \in WithId(ListOf(kind, s, u), id) } :
            u \in Owners }

C17_CreatedAtImmutable ==
  (last.op = "update" /\ ~last.threw) =>
    CreatedAtOf(last.kind, sheet, last.id) \subseteq CreatedAtOf(last.kind, last.pre, last.id)

(***************************************************************************)
(* C18.  An appointment appended with its status omitted is stored with    *)
(* the status pending: the status cell of its row is pending, and list     *)
(* returns the record with the status pending.                             *)
(***************************************************************************)
\* the last operation appended an appointment whose input had no status
AppendedWithoutStatus ==
  /\ last.op = "create"
  /\ ~last.threw
  /\ last.kind = "apt"
  /\ "status" \notin DOMAIN last.data

\* the row the last create appended, and its status cell (row[7])
AppendedRow == sheet[last.kind][Len(sheet[last.kind])]

StatusCell(row) == Cell(row, 7)

\* the statuses list returns for the record the last create appended
ListedStatuses ==
  LET l == ListOf(last.kind, sheet, last.userId)
  IN  { l[i].status : i \in WithId(l, last.id) }

C18_OmittedStatusStoredPending ==
  AppendedWithoutStatus =>
    /\ StatusCell(AppendedRow) = "pending"
    /\ ListedStatuses \subseteq {"pending"}

(***************************************************************************)
(* C18, amended.  An appointment appended with its status omitted is       *)
(* stored with an empty status cell; the default is applied on reading:    *)
(* the row parses to the status pending, and list returns the record, when *)
(* its row is below row 1, with the status pending.                        *)
(***************************************************************************)
C18_OmittedStatusReadsPending ==
  AppendedWithoutStatus =>
    /\ StatusCell(AppendedRow) = ""
    /\ ParseRow(last.kind, AppendedRow).status = "pending"
    /\ ListedStatuses \subseteq {"pending"}
    /\ Len(sheet[last.kind]) >= 2 => ListedStatuses = {"pending"}

\* an appointment without status appended below the header and other
\* records, and returned by list
C18_Witness ==
  /\ AppendedWithoutStatus
  /\ Len(sheet[last.kind]) >= 3
  /\ ListedStatuses = {"pending"}

(***************************************************************************)
(* C19.  Not-found is distinct from a transport failure: update and delete *)
(* raise the Not-found error exactly when the tab holds no record with the *)
(* id for the owner; when a request made by update or delete (the locating *)
(* scan or the write) fails, the error raised is the transport error with  *)
(* the provider's status, never Not-found.                                 *)
(***************************************************************************)
RaisedNotFound == last.threw /\ last.err = NotFoundMessage(last.kind)

\* the error makeRequest raises for the failed request q
RaisedTransportError(q) ==
  /\ last.threw
  /\ last.err # NotFoundMessage(last.kind)
  /\ Includes(last.err, Digits(last.reqs[q].status))

C19_NotFoundDistinct ==
  last.op \in {"update", "delete"} =>
    /\ RaisedNotFound <=>
         RowsHolding(last.kind, last.pre[last.kind], last.id, last.userId) = {}
    /\ \A q \in 1..Len(last.reqs) : FailedRequest(q) => RaisedTransportError(q)

(***************************************************************************)
(* C20.  When the metadata probe of testConnection fails, the error        *)
(* returned is classified by the probe's status: 404 gives the             *)
(* spreadsheet-not-found message, 403 the access-denied message, 400 the   *)
(* invalid-request message, and any other failing status the provider's    *)
(* own error message unchanged, whatever the provider's message and        *)
(* details contain.                                                        *)
(***************************************************************************)
\* the last testConnection issued its probe, and the answer had a failing
\* status
ProbeFailedWithStatus ==
  /\ last.op = "test"
  /\ last.reqs # <<>>
  /\ ~last.data.answer.rejected
  /\ last.data.answer.status >= 400

\* the message the claim assigns to a failing answer
MessageForStatus(answer) ==
  CASE answer.status = 404 -> SpreadsheetNotFound
    [] answer.status = 403 -> AccessDenied
    [] answer.status = 400 -> InvalidRequest
    [] OTHER -> ErrorMessage(answer)

C20_ClassifiedByStatus ==
  ProbeFailedWithStatus =>
    last.ret = <<[success |-> FALSE, error |-> MessageForStatus(last.data.answer)]>>

(***************************************************************************)
(* C21.  updatedAt is rewritten on every mutation: after a successful      *)
(* update, whatever partial fields it carried (a caller's updatedAt        *)
(* included), the record's stored updatedAt is the time the store took     *)
(* during that update; at creation updatedAt equals createdAt.             *)
(***************************************************************************)
\* the updatedAt values stored in the rows that hold the record of the last
\* operation
StoredUpdatedAt ==
  { ParseRow(last.kind, sheet[last.kind][n]).updatedAt :
      n \in RowsHolding(last.kind, sheet[last.kind], last.id, last.userId) }

C21_UpdatedAtRewritten ==
  /\ (last.op = "update" /\ ~last.threw) => StoredUpdatedAt = {Iso(last.at)}
  /\ (last.op = "create" /\ ~last.threw) =>
       /\ last.ret[1].updatedAt = last.ret[1].createdAt
       /\ ParseRow(last.kind, AppendedRow).updatedAt = ParseRow(last.kind, AppendedRow).createdAt

(***************************************************************************)
(* C22.  Single attempt, no retry: every operation ends after a bounded    *)
(* number of requests (list, create and testConnection at most 1; update   *)
(* and delete at most 2, one scan then one write; initialize at most 2 for *)
(* each tab) and never sends again a request that failed.                  *)
(***************************************************************************)
\* requests p and q of the last operation address the same endpoint
SameRequest(p, q) ==
  /\ last.reqs[p].method = last.reqs[q].method
  /\ last.reqs[p].kind = last.reqs[q].kind
  /\ last.reqs[p].range = last.reqs[q].range
  /\ last.reqs[p].row = last.reqs[q].row

\* the requests of the last operation that address a tab
RequestsOn(kind) == { q \in 1..Len(last.reqs) : last.reqs[q].kind = kind }

C22_SingleAttempt ==
  /\ last.op \in {"list", "create", "test"} => Len(last.reqs) <= 1
  /\ last.op \in {"update", "delete"} =>
       /\ Len(last.reqs) <= 2
       /\ Len(last.reqs) >= 1 => 1 \in Issued("GET", "all")
       /\ Len(last.reqs) = 2 => 2 \in WriteRequests
  /\ last.op = "initialize" => \A kind \in Kinds : Cardinality(RequestsOn(kind)) <= 2
  /\ \A p \in 1..Len(last.reqs) : \A q \in 1..Len(last.reqs) :
       (p < q /\ FailedRequest(p)) => ~SameRequest(p, q)

\* an initialize whose header fetch of the first tab failed and whose header
\* write failed too: the operation ended there
C22_Witness ==
  /\ last.op = "initialize"
  /\ Len(last.reqs) = 2
  /\ FailedRequest(1)
  /\ FailedRequest(2)
  /\ last.threw

(***************************************************************************)
(* C25.  create does not disturb existing data: a successful create adds   *)
(* exactly one row, through a single append request, and every row that    *)
(* existed before keeps its content and its row number.                    *)
(***************************************************************************)
C25_CreateKeepsRows ==
  (last.op = "create" /\ ~last.threw) =>
    /\ Len(last.reqs) = 1
    /\ Issued("POST", "append") = {1}
    /\ Len(sheet[last.kind]) = Len(last.pre[last.kind]) + 1
    /\ \A n \in 1..Len(last.pre[last.kind]) : sheet[last.kind][n] = last.pre[last.kind][n]
    /\ ParseRow(last.kind, AppendedRow).id = last.id
    /\ \A kind \in Kinds \ {last.kind} : sheet[kind] = last.pre[kind]

\* a create on a tab that holds records of both owners, a blank gap and a
\* short row
C25_Witness ==
  /\ last.op = "create"
  /\ ~last.threw
  /\ \E n \in 2..Len(last.pre[last.kind]) : last.pre[last.kind][n] = <<>>
  /\ \A u \in Owners : OwnedRows(last.kind, last.pre[last.kind], u) # {}

(***************************************************************************)
(* C26.  Owner isolation of writes: whatever the tabs hold, an update or   *)
(* a delete issued for one owner leaves list of every other owner as it    *)
(* was, and overwrites or clears no row whose owner column names another   *)
(* owner.                                                                  *)
(***************************************************************************)
\* the owners other than the one the last operation was issued for
OtherOwners == Owners \ {last.userId}

C26_WritesKeepOtherOwners ==
  last.op \in {"update", "delete"} =>
    \A b \in OtherOwners :
      /\ ListOf(last.kind, sheet, b) = ListOf(last.kind, last.pre, b)
      /\ \A n \in OwnedRows(last.kind, last.pre[last.kind], b) :
           sheet[last.kind][n] = last.pre[last.kind][n]

(***************************************************************************)
(* C27.  Id uniqueness: after any sequence of create, update and delete    *)
(* run one at a time, no two rows of a tab carry the same non-empty id.    *)
(***************************************************************************)
\* the data rows of a tab that carry an id
RowsWithId(t) == { n \in 2..Len(t) : OrElse(Cell(t[n], 0), "") # "" }

C27_IdsUnique ==
  \A kind \in Kinds : \A n \in RowsWithId(sheet[kind]) : \A m \in RowsWithId(sheet[kind]) :
    Cell(sheet[kind][n], 0) = Cell(sheet[kind][m], 0) => n = m

(***************************************************************************)
(* C23.  The scan-then-write of update is not atomic: there is an          *)
(* interleaving of two sessions in which a create or a delete of the other *)
(* session completes between the scan and the overwrite of an update, and  *)
(* the update then overwrites a row that does not hold the record with the *)
(* id, with no error reported.  The overwrite goes to the row numbered at  *)
(* the scan, whatever the tab holds by the time it is sent.                *)
(***************************************************************************)
\* an operation of the other session completed after the scan of the update
\* whose overwrite is the last operation
InterposedOps(ops) ==
  /\ last.op = "write"
  /\ last.after.op \in ops
  /\ last.after.at > last.at
  /\ ~last.after.threw

RowsOfId(t, id) == { n \in 2..Len(t) : Cell(t[n], 0) = id }

\* an update of the same record by the other session succeeded between the
\* scan and the successful overwrite of the last update
TwoUpdatesOverlapped ==
  /\ InterposedOps({"update"})
  /\ last.after.id = last.id
  /\ ~last.threw

C24_LastWriteWins ==
  TwoUpdatesOverlapped =>
    /\ RowsOfId(sheet[last.kind], last.id) # {}
    /\ \A n \in RowsOfId(sheet[last.kind], last.id) : sheet[last.kind][n] = last.sent

(***************************************************************************)
(* C28.  A completed delete is never undone: once delete(id, owner) has    *)
(* returned successfully, no later list(owner) returns a record with that  *)
(* id, in any interleaving, also when an update(id) of another session did *)
(* its scan before the delete and does its overwrite after it.             *)
(***************************************************************************)
\* list of the owner of the last operation holds a record with its id
StillListed == WithId(ListOf(last.kind, sheet, last.userId), last.id) # {}

\* a delete of the record by the other session succeeded between the scan
\* and the overwrite of the last update
DeletedMeanwhile ==
  /\ InterposedOps({"delete"})
  /\ last.after.id = last.id
  /\ last.after.userId = last.userId

C28_DeleteNeverUndone ==
  /\ (last.op = "delete" /\ ~last.threw) => ~StillListed
  /\ DeletedMeanwhile => ~StillListed

(***************************************************************************)
(* C29.  In GoogleSheetsProvider, after any sequence of setConfig calls    *)
(* and connection tests settling in any order, isConnected is true only if *)
(* service is not null and the connection test of the installed service    *)
(* (built from the latest configuration) succeeded; the result of a test   *)
(* of a superseded or removed configuration never sets isConnected.        *)
(***************************************************************************)
C29_ConnectedMeansCurrentTestPassed ==
  provider.isConnected =>
    /\ provider.service # NoService
    /\ provider.service.gen \in provider.passed

(***************************************************************************)
(* C30.  handleSave persists the configuration and calls onConfigChange    *)
(* only after, in this order, testConnection returned success and          *)
(* initializeSheets completed without an error; when the identifier is     *)
(* empty, the test fails or the initialization raises, nothing is          *)
(* persisted, onConfigChange is not called, no header is written before a  *)
(* successful test, and isLoading ends false on every path that set it.    *)
(***************************************************************************)
\* the positions of a call in the calls of the last handleSave
CallsOf(name) ==
  { k \in 1..Len(last.ret[1].events) : last.ret[1].events[k] = name }

\* every call named a comes before every call named b, and both were made
CalledBefore(a, b) ==
  /\ CallsOf(a) # {}
  /\ CallsOf(b) # {}
  /\ \A j \in CallsOf(a) : \A k \in CallsOf(b) : j < k

\* the last handleSave had an identifier and its probe was answered with the
\* spreadsheet's metadata
SaveTestSucceeded ==
  /\ "spreadsheetId" \in DOMAIN last.data.config
  /\ last.data.config.spreadsheetId # ""
  /\ ~last.data.answer.rejected
  /\ last.data.answer.status < 400
  /\ "body" \in DOMAIN last.data.answer => "properties" \in DOMAIN last.data.answer.body

\* the initialization of the last handleSave ran and raised no error: no
\* header write failed
SaveInitialized ==
  /\ Issued("GET", "row") # {}
  /\ \A q \in Issued("PUT", "row") : ~FailedRequest(q)
  /\ \A kind \in Kinds : HeaderFetches(kind) # {}

C30_SaveOnlyAfterTestAndInit ==
  last.op = "save" =>
    /\ ~last.threw
    /\ last.ret[1].persisted <=> (SaveTestSucceeded /\ SaveInitialized)
    /\ last.ret[1].notified <=> last.ret[1].persisted
    /\ last.ret[1].persisted =>
         /\ CalledBefore("testConnection", "initializeSheets")
         /\ CalledBefore("initializeSheets", "localStorage.setItem")
         /\ CalledBefore("localStorage.setItem", "onConfigChange")
    /\ ~last.ret[1].persisted =>
         CallsOf("localStorage.setItem") \cup CallsOf("onConfigChange") = {}
    /\ ~SaveTestSucceeded => Issued("PUT", "row") \cup Issued("GET", "row") = {}
    /\ \A q \in Issued("PUT", "row") : q > 1 /\ ~FailedRequest(1)
    /\ ~last.ret[1].isLoading
    /\ CallsOf("setIsLoading(true)") # {} =>
         last.ret[1].events[Len(last.ret[1].events)] = "setIsLoading(false)"

\* a save whose test succeeded and whose initialization raised: the header
\* write of a tab failed
C30_Witness ==
  /\ last.op = "save"
  /\ SaveTestSucceeded
  /\ \E q \in Issued("PUT", "row") : FailedRequest(q)
  /\ ~last.ret[1].persisted
  /\ CallsOf("setIsLoading(true)") # {}

====
